---- MODULE Spec2Model ----
(***************************************************************************)
(* Soft-delete plugin (src/soft-delete.plugin.ts) over a small collection. *)
(*                                                                         *)
(* The collection is a function from document ids to documents; a document *)
(* is a record of BSON-like values.  A filter object is a sequence of      *)
(* clauses (its own keys, in order); the query operators the plugin emits  *)
(* ($or, $and, $exists, $type, equality with null) are evaluated as        *)
(* MongoDB evaluates them.  A query goes through construction, the chained *)
(* helpers withDeleted() / onlyDeleted(), and execution, whose pre-hook is *)
(* apply().                                                                *)
(***************************************************************************)
EXTENDS Integers, Sequences, FiniteSets, TLC

\* ---------------------------------------------------------------- bounds
NumDocs == 2
MaxTicks == 2

\* Math.floor(Date.now() / 1000): milliseconds in a second.
MsPerSec == 1000

\* The clock advances in half seconds, so that the floor is exercised.
TickMs == MsPerSec \div 2
EpochMs == MsPerSec + TickMs

Ids == 1..NumDocs

VARIABLES
    store,      \* the collection: id -> document
    ticks,      \* number of clock ticks since EpochMs
    q,          \* the query or aggregation being built / executed
    pc,         \* "idle" | "built" | "done": position of the caller
    last,       \* the softDelete / restore call completed last, no query issued since
    restored    \* ids restored by instance restore() and not soft-deleted since

vars == <<store, ticks, q, pc, last, restored>>

\* ---------------------------------------------------------------- values
Undefined == [t |-> "undefined", n |-> 0, s |-> ""]
Null == [t |-> "null", n |-> 0, s |-> ""]
Num(k) == [t |-> "number", n |-> k, s |-> ""]
Str(x) == [t |-> "string", n |-> 0, s |-> x]
Bool(b) == [t |-> "bool", n |-> IF b THEN 1 ELSE 0, s |-> ""]

\* ---------------------------------------------------------------- clock
DateNow == EpochMs + ticks * TickMs

generateUnixTime == DateNow \div MsPerSec

\* ---------------------------------------------------------------- filters
EmptyObject == << >>

FieldEq(key, v) == [key |-> key, op |-> "$eq", val |-> v, subs |-> << >>]
FieldExists(key, b) == [key |-> key, op |-> "$exists", val |-> Bool(b), subs |-> << >>]
FieldType(key, name) == [key |-> key, op |-> "$type", val |-> Str(name), subs |-> << >>]
AndOf(fs) == [key |-> "$and", op |-> "$and", val |-> Null, subs |-> fs]
OrOf(fs) == [key |-> "$or", op |-> "$or", val |-> Null, subs |-> fs]

\* A possibly missing object argument (null / undefined in JavaScript).
Missing == [isNull |-> TRUE, obj |-> EmptyObject]
Given(obj) == [isNull |-> FALSE, obj |-> obj]

\* x ?? {}
OrEmpty(x) == IF x.isNull THEN EmptyObject ELSE x.obj

ObjectKeys(obj) == [i \in 1..Len(obj) |-> obj[i].key]

RECURSIVE Matches(_, _)
RECURSIVE MatchClause(_, _)
MatchClause(doc, c) ==
    CASE c.op = "$and" -> \A i \in 1..Len(c.subs) : Matches(doc, c.subs[i])
      [] c.op = "$or" -> \E i \in 1..Len(c.subs) : Matches(doc, c.subs[i])
      [] c.op = "$exists" -> (doc[c.key].t # "undefined") <=> (c.val.n = 1)
      [] c.op = "$type" -> doc[c.key].t = c.val.s
      [] c.op = "$eq" ->
            IF c.val.t = "null"
            THEN doc[c.key].t \in {"undefined", "null"}
            ELSE doc[c.key] = c.val

Matches(doc, f) == \A i \in 1..Len(f) : MatchClause(doc, f[i])

\* ---------------------------------------------------------------- plugin
opts == [field |-> "deletedAt", defaultFilter |-> "exclude"]

\* notDeleted without its null branch: only a never-set marker counts as live.
notDeleted_existsOnly == << OrOf(<< << FieldExists(opts.field, FALSE) >> >>) >>

notDeleted == << OrOf(<< << FieldExists(opts.field, FALSE) >>, << FieldEq(opts.field, Null) >> >>) >>

\* isDeleted testing presence instead of numeric type.
isDeleted_exists == << FieldExists(opts.field, TRUE) >>

isDeleted == << FieldType(opts.field, "number") >>

\* The hooked list with one operation kind forgotten.
methods_short ==
    {"find", "findOne", "count", "countDocuments", "distinct", "update", "updateOne",
     "updateMany", "findOneAndUpdate", "findOneAndDelete", "findOneAndRemove"}

methods ==
    {"find", "findOne", "count", "countDocuments", "distinct", "update", "updateOne",
     "updateMany", "findOneAndUpdate", "findOneAndDelete", "findOneAndRemove", "exists"}

NoOptions == [withDeleted |-> FALSE, onlyDeleted |-> FALSE]

\* q.where(cond): merge cond's keys into the query's conditions.
where(conditions, cond) ==
    LET cur == OrEmpty(conditions)
        kept == SelectSeq(cur, LAMBDA c : \A i \in 1..Len(cond) : cond[i].key # c.key)
    IN Given(kept \o cond)

\* q.setQuery(obj): replace the query's conditions.
setQuery(conditions, obj) == Given(obj)

\* apply with a naive object merge in place of the $and composition.
apply_objectMerge(conditions, qopts) ==
    LET only == qopts.onlyDeleted \/ opts.defaultFilter = "only"
        include == qopts.withDeleted \/ opts.defaultFilter = "include"
        cond == IF only THEN isDeleted ELSE notDeleted
    IN IF include /\ ~only THEN conditions ELSE where(conditions, cond)

\* apply that never returns early: the predicate is injected under withDeleted too.
apply_noEarlyReturn(conditions, qopts) ==
    LET only == qopts.onlyDeleted \/ opts.defaultFilter = "only"
        cond == IF only THEN isDeleted ELSE notDeleted
        current == OrEmpty(conditions)
        hasFilter == Len(ObjectKeys(current)) > 0
    IN IF ~hasFilter THEN where(conditions, cond)
       ELSE setQuery(conditions, << AndOf(<< current, cond >>) >>)

\* apply whose early return tests include alone: withDeleted beats onlyDeleted.
apply_includeWins(conditions, qopts) ==
    LET only == qopts.onlyDeleted \/ opts.defaultFilter = "only"
        include == qopts.withDeleted \/ opts.defaultFilter = "include"
        cond == IF only THEN isDeleted ELSE notDeleted
        current == OrEmpty(conditions)
        hasFilter == Len(ObjectKeys(current)) > 0
    IN IF include THEN conditions
       ELSE IF ~hasFilter THEN where(conditions, cond)
       ELSE setQuery(conditions, << AndOf(<< current, cond >>) >>)

\* The pre-hook of every hooked operation: the conditions the query executes with.
apply(conditions, qopts) ==
    LET only == qopts.onlyDeleted \/ opts.defaultFilter = "only"
        include == qopts.withDeleted \/ opts.defaultFilter = "include"
        cond == IF only THEN isDeleted ELSE notDeleted
        current == OrEmpty(conditions)
        hasFilter == Len(ObjectKeys(current)) > 0
    IN IF include /\ ~only THEN conditions
       ELSE IF ~hasFilter THEN where(conditions, cond)
       ELSE setQuery(conditions, << AndOf(<< current, cond >>) >>)

\* schema.pre(m, function () { apply(this) }) for every m of methods.
preQuery(kind, conditions, qopts) ==
    IF kind \in methods THEN apply(conditions, qopts) ELSE conditions

\* A pipeline stage { $match: filter }.
MatchStage(f) == [stage |-> "$match", filter |-> f]

\* The aggregate hook with push in place of unshift: the stage goes last.
preAggregate_push(pipeline, aopts) ==
    LET only == aopts.onlyDeleted = TRUE \/ opts.defaultFilter = "only"
        include == aopts.withDeleted = TRUE \/ opts.defaultFilter = "include"
    IN IF include /\ ~only THEN pipeline
       ELSE pipeline \o << MatchStage(IF only THEN isDeleted ELSE notDeleted) >>

\* schema.pre('aggregate'): the pipeline the aggregation executes.
preAggregate(pipeline, aopts) ==
    LET only == aopts.onlyDeleted = TRUE \/ opts.defaultFilter = "only"
        include == aopts.withDeleted = TRUE \/ opts.defaultFilter = "include"
    IN IF include /\ ~only THEN pipeline
       ELSE << MatchStage(IF only THEN isDeleted ELSE notDeleted) >> \o pipeline

\* ---------------------------------------------------------------- driver
\* The ids of the documents of st that a filter object selects.
Select(st, f) == {d \in DOMAIN st : Matches(st[d], f)}

\* The ids an aggregation pipeline of $match stages lets through.
RECURSIVE RunPipeline(_, _, _)
RunPipeline(st, pipeline, docs) ==
    IF pipeline = << >> THEN docs
    ELSE RunPipeline(st, Tail(pipeline), {d \in docs : Matches(st[d], Head(pipeline).filter)})

\* updateMany(..., { $set: { [field]: v } }) on the selected documents.
SetMany(st, ids, field, v) ==
    [d \in DOMAIN st |-> IF d \in ids THEN [st[d] EXCEPT ![field] = v] ELSE st[d]]

\* Operations that act on at most one of the matching documents.
SingleKinds ==
    {"findOne", "update", "updateOne", "findOneAndUpdate", "findOneAndDelete",
     "findOneAndRemove", "exists"}

\* What an operation of the kind returns or acts on, given the matching ids.
Outcomes(kind, matched) ==
    IF kind \in SingleKinds
    THEN IF matched = {} THEN {{}} ELSE {{d} : d \in matched}
    ELSE {matched}

\* ---------------------------------------------------------------- inputs
Operations ==
    {"find", "findOne", "count", "countDocuments", "distinct", "update", "updateOne",
     "updateMany", "findOneAndUpdate", "findOneAndDelete", "findOneAndRemove", "exists"}

StatusOf(d) == IF d % 2 = 1 THEN Str("active") ELSE Str("inactive")

CallerFilters ==
    {Missing,
     Given(EmptyObject),
     Given(<< FieldEq("status", Str("active")) >>),
     Given(<< FieldType("deletedAt", "number") >>),
     Given(<< FieldEq("deletedAt", Null) >>),
     Given(<< FieldEq("status", Str("active")), FieldExists("deletedAt", TRUE) >>),
     Given(<< OrOf(<< << FieldEq("status", Str("inactive")) >>,
                      << FieldType("deletedAt", "number") >> >>) >>)}

CallerPipelines ==
    {<< >>,
     << MatchStage(<< FieldEq("status", Str("active")) >>) >>,
     << MatchStage(<< FieldType("deletedAt", "number") >>) >>}

OptionBags == [withDeleted : BOOLEAN, onlyDeleted : BOOLEAN]

\* ---------------------------------------------------------------- state
NoQuery ==
    [kind |-> "none", filter |-> Missing, conditions |-> Missing, options |-> NoOptions,
     calls |-> << >>, stages |-> << >>, pipeline |-> << >>, matched |-> {}, result |-> {}]

NoCall == [op |-> "none", doc |-> 0, filter |-> Missing, at |-> 0]

Init ==
    /\ store = [d \in Ids |-> [status |-> StatusOf(d), deletedAt |-> Undefined]]
    /\ ticks = 0
    /\ q = NoQuery
    /\ pc = "idle"
    /\ last = NoCall
    /\ restored = {}

\* Time passes between the caller's operations.
Tick ==
    /\ pc = "idle"
    /\ ticks < MaxTicks
    /\ ticks' = ticks + 1
    /\ UNCHANGED <<store, q, pc, last, restored>>

\* Model.<kind>(filter): a query with the caller's filter and no options yet.
NewQuery(kind, f) ==
    /\ pc = "idle"
    /\ q' = [NoQuery EXCEPT !.kind = kind, !.filter = f, !.conditions = f]
    /\ pc' = "built"
    /\ last' = NoCall
    /\ UNCHANGED <<store, ticks, restored>>

\* query.withDeleted(): setOptions({ withDeleted: true }).  A repeated call sets
\* the same option again and changes nothing, so each helper is taken once.
withDeleted ==
    /\ pc = "built"
    /\ q.kind \in Operations
    /\ ~q.options.withDeleted
    /\ q' = [q EXCEPT !.options.withDeleted = TRUE, !.calls = Append(@, "withDeleted")]
    /\ UNCHANGED <<store, ticks, pc, last, restored>>

\* query.onlyDeleted(): setOptions({ onlyDeleted: true }).
onlyDeleted ==
    /\ pc = "built"
    /\ q.kind \in Operations
    /\ ~q.options.onlyDeleted
    /\ q' = [q EXCEPT !.options.onlyDeleted = TRUE, !.calls = Append(@, "onlyDeleted")]
    /\ UNCHANGED <<store, ticks, pc, last, restored>>

\* The query runs: its pre-hook rewrites the conditions, the driver selects.
Exec ==
    /\ pc = "built"
    /\ q.kind \in Operations
    /\ LET conditions == preQuery(q.kind, q.conditions, q.options)
           matched == Select(store, OrEmpty(conditions))
       IN \E r \in Outcomes(q.kind, matched) :
            q' = [q EXCEPT !.conditions = conditions, !.matched = matched, !.result = r]
    /\ pc' = "done"
    /\ UNCHANGED <<store, ticks, last, restored>>

\* Model.aggregate(pipeline, options).
NewAggregate(pipeline, aopts) ==
    /\ pc = "idle"
    /\ q' = [NoQuery EXCEPT !.kind = "aggregate", !.stages = pipeline,
                            !.pipeline = pipeline, !.options = aopts]
    /\ pc' = "built"
    /\ last' = NoCall
    /\ UNCHANGED <<store, ticks, restored>>

\* The aggregation runs: its pre-hook rewrites the pipeline, the driver runs it.
ExecAggregate ==
    /\ pc = "built"
    /\ q.kind = "aggregate"
    /\ LET pipeline == preAggregate(q.pipeline, q.options)
           out == RunPipeline(store, pipeline, DOMAIN store)
       IN q' = [q EXCEPT !.pipeline = pipeline, !.matched = out, !.result = out]
    /\ pc' = "done"
    /\ UNCHANGED <<store, ticks, last, restored>>

\* The caller takes the result; the operation and its options are gone.
Discard ==
    /\ pc = "done"
    /\ q' = NoQuery
    /\ pc' = "idle"
    /\ UNCHANGED <<store, ticks, last, restored>>

\* doc.softDelete(): this[field] = generateUnixTime(); this.save().  save() writes
\* the document by its id, outside the query hooks.
softDelete(d) ==
    /\ pc = "idle"
    /\ store' = [store EXCEPT ![d][opts.field] = Num(generateUnixTime)]
    /\ last' = [op |-> "softDelete", doc |-> d, filter |-> Missing, at |-> generateUnixTime]
    /\ restored' = restored \ {d}
    /\ UNCHANGED <<ticks, q, pc>>

\* doc.restore(): this[field] = null; this.save().
restore(d) ==
    /\ pc = "idle"
    /\ store' = [store EXCEPT ![d][opts.field] = Null]
    /\ last' = [op |-> "restore", doc |-> d, filter |-> Missing, at |-> generateUnixTime]
    /\ restored' = restored \cup {d}
    /\ UNCHANGED <<ticks, q, pc>>

\* The ids this.updateMany(filter, ...) of a static helper updates: updateMany is
\* a hooked operation, so its pre-hook runs on the helper's query (no options).
BulkTargets(f) ==
    LET filter == Given(OrEmpty(f))
    IN Select(store, OrEmpty(preQuery("updateMany", filter, NoOptions)))

\* Model.softDelete(filter = {}).
StaticSoftDelete(f) ==
    /\ pc = "idle"
    /\ store' = SetMany(store, BulkTargets(f), "deletedAt", Num(generateUnixTime))
    /\ last' = [op |-> "Model.softDelete", doc |-> 0, filter |-> f, at |-> generateUnixTime]
    /\ restored' = restored \ BulkTargets(f)
    /\ UNCHANGED <<ticks, q, pc>>

\* Model.restore(filter = {}).
StaticRestore(f) ==
    /\ pc = "idle"
    /\ store' = SetMany(store, BulkTargets(f), "deletedAt", Null)
    /\ last' = [op |-> "Model.restore", doc |-> 0, filter |-> f, at |-> generateUnixTime]
    /\ UNCHANGED <<ticks, q, pc, restored>>

Next ==
    \/ Tick
    \/ \E kind \in Operations, f \in CallerFilters : NewQuery(kind, f)
    \/ withDeleted
    \/ onlyDeleted
    \/ Exec
    \/ \E pipeline \in CallerPipelines, aopts \in OptionBags : NewAggregate(pipeline, aopts)
    \/ ExecAggregate
    \/ Discard
    \/ \E d \in Ids : softDelete(d)
    \/ \E d \in Ids : restore(d)
    \/ \E f \in CallerFilters : StaticSoftDelete(f)
    \/ \E f \in CallerFilters : StaticRestore(f)

Spec == Init /\ [][Next]_vars

\* ---------------------------------------------------------------- claims
\* Every document shape a filter can be asked about, corrupt markers included.
MarkerValues ==
    {Undefined, Null, Str("yesterday")}
        \cup {Num(k) : k \in 0..((EpochMs + MaxTicks * TickMs) \div MsPerSec)}

DocUniverse == [status : {Str("active"), Str("inactive")}, deletedAt : MarkerValues]

Deleted(d) == store[d].deletedAt.t = "number"

HookedQueryDone == pc = "done" /\ q.kind # "aggregate"

\* C1 (default exclusion): an operation of any of the twelve hooked kinds, issued
\* with no withDeleted/onlyDeleted option and any caller filter, never selects a
\* document whose deletedAt is a number.
C1_DefaultExclusion ==
    (/\ pc = "done"
     /\ q.kind \in {"find", "findOne", "count", "countDocuments", "distinct", "update",
                    "updateOne", "updateMany", "findOneAndUpdate", "findOneAndDelete",
                    "findOneAndRemove", "exists"}
     /\ q.calls = << >>)
        => \A d \in q.matched \cup q.result : ~Deleted(d)

\* C1 witness: a default findOneAndUpdate whose caller filter matches a soft-deleted
\* document and a live one, and that selected the live one.
C1_Witness ==
    /\ pc = "done" /\ q.kind = "findOneAndUpdate" /\ q.calls = << >>
    /\ \E d \in Ids : Deleted(d) /\ Matches(store[d], OrEmpty(q.filter)) /\ d \notin q.result
    /\ \E d \in q.result : ~Deleted(d)

\* The deletion predicate the options of the executed query call for.
InjectedCond == IF q.options.onlyDeleted THEN isDeleted ELSE notDeleted

\* C2 (filter merge policy): when a predicate cond is injected, the executed
\* filter is exactly cond if the caller filter is missing or has no own keys, and
\* otherwise matches exactly the documents satisfying the caller filter AND cond.
C2_FilterMerge ==
    (HookedQueryDone /\ ~(q.options.withDeleted /\ ~q.options.onlyDeleted))
        => IF q.filter.isNull \/ Len(q.filter.obj) = 0
           THEN q.conditions = Given(InjectedCond)
           ELSE \A doc \in DocUniverse :
                    Matches(doc, OrEmpty(q.conditions))
                        <=> (Matches(doc, q.filter.obj) /\ Matches(doc, InjectedCond))

\* C2 witness: an executed query whose caller filter itself constrains deletedAt
\* ({deletedAt: null}) under onlyDeleted, where neither side alone is the answer.
C2_Witness ==
    /\ HookedQueryDone
    /\ q.filter = Given(<< FieldEq("deletedAt", Null) >>)
    /\ q.calls = << "onlyDeleted" >>
    /\ q.matched = {}
    /\ \E d \in Ids : Deleted(d)
    /\ \E d \in Ids : store[d].deletedAt = Null

\* C3 (only-deleted mode): find with an empty caller filter and onlyDeleted() set
\* returns exactly the documents whose deletedAt is present and numeric.
C3_OnlyDeleted ==
    (pc = "done" /\ q.kind = "find" /\ q.options.onlyDeleted /\ OrEmpty(q.filter) = EmptyObject)
        => q.result = {d \in Ids : Deleted(d)}

\* C3 witness: find({}).onlyDeleted() returning a soft-deleted document while
\* another document carries a null marker and is left out.
C3_Witness ==
    /\ pc = "done" /\ q.kind = "find" /\ q.calls = << "onlyDeleted" >>
    /\ q.filter = Given(EmptyObject)
    /\ q.result # {}
    /\ \E d \in Ids : store[d].deletedAt = Null /\ d \notin q.result

\* C4 (include-all mode): with withDeleted() set and onlyDeleted() not, the hook
\* leaves the caller's filter (or pipeline) unchanged, so the operation matches
\* live and soft-deleted documents alike, by the caller filter alone.
C4_IncludeAll ==
    (pc = "done" /\ q.options.withDeleted /\ ~q.options.onlyDeleted)
        => IF q.kind = "aggregate"
           THEN q.pipeline = q.stages
           ELSE /\ q.conditions = q.filter
                /\ q.matched = {d \in Ids : Matches(store[d], OrEmpty(q.filter))}

\* C4 witness: find({}).withDeleted() returning a live and a soft-deleted document.
C4_Witness ==
    /\ pc = "done" /\ q.kind = "find" /\ q.calls = << "withDeleted" >>
    /\ \E d \in q.result : Deleted(d)
    /\ \E d \in q.result : ~Deleted(d)

OnlyAlone == [withDeleted |-> FALSE, onlyDeleted |-> TRUE]

\* C5 (mode precedence): an operation with both onlyDeleted() and withDeleted()
\* set, in either call order, executes with the same filter and returns the same
\* documents as with onlyDeleted() alone; likewise an aggregation.
C5_ModePrecedence ==
    (pc = "done" /\ q.options.withDeleted /\ q.options.onlyDeleted)
        => IF q.kind = "aggregate"
           THEN /\ q.pipeline = preAggregate(q.stages, OnlyAlone)
                /\ q.result = RunPipeline(store, preAggregate(q.stages, OnlyAlone), Ids)
           ELSE LET alone == preQuery(q.kind, q.filter, OnlyAlone)
                IN /\ q.conditions = alone
                   /\ q.matched = Select(store, OrEmpty(alone))
                   /\ q.result \in Outcomes(q.kind, Select(store, OrEmpty(alone)))

\* C5 witness: onlyDeleted() then withDeleted() on a find that returns a
\* soft-deleted document while a live one exists.
C5_Witness ==
    /\ pc = "done" /\ q.kind = "find" /\ q.calls = << "onlyDeleted", "withDeleted" >>
    /\ q.result # {}
    /\ \E d \in Ids : ~Deleted(d)

\* C6 (restore visibility): after instance restore() on a document, and until the
\* next softDelete on it, its deletedAt is null (not absent) and a default find
\* returns it whenever the caller filter matches it.
C6_RestoreVisibility ==
    \A d \in restored :
        /\ store[d].deletedAt = Null
        /\ (pc = "done" /\ q.kind = "find" /\ q.calls = << >>)
              => (d \in q.result <=> Matches(store[d], OrEmpty(q.filter)))

\* C6 witness: a restored document returned by a default find({}), next to a
\* soft-deleted one that is not.
C6_Witness ==
    /\ pc = "done" /\ q.kind = "find" /\ q.calls = << >> /\ q.filter = Given(EmptyObject)
    /\ \E d \in restored : d \in q.result
    /\ \E d \in Ids : Deleted(d) /\ d \notin q.result

\* C7 (aggregation parity): under default mode the aggregate hook puts a $match of
\* the not-deleted predicate first, ahead of every caller stage, and an aggregation
\* returns what the equivalent default find returns.
C7_AggregationParity ==
    (pc = "done" /\ q.kind = "aggregate" /\ q.options = NoOptions)
        => /\ Len(q.pipeline) = Len(q.stages) + 1
           /\ Head(q.pipeline) = MatchStage(notDeleted)
           /\ Tail(q.pipeline) = q.stages
           /\ q.stages = << >>
                => q.result = Select(store, OrEmpty(preQuery("find", Given(EmptyObject), NoOptions)))
           /\ Len(q.stages) = 1
                => q.result = Select(store, OrEmpty(preQuery("find", Given(q.stages[1].filter), NoOptions)))

\* C7 witness: a default aggregation with no caller stage over a collection holding
\* a live and a soft-deleted document.
C7_Witness ==
    /\ pc = "done" /\ q.kind = "aggregate" /\ q.options = NoOptions /\ q.stages = << >>
    /\ q.result # {}
    /\ \E d \in Ids : Deleted(d)

\* C8 (bulk softDelete target selection), as claimed: Model.softDelete(filter) sets
\* deletedAt to the current Unix time on every document matching the caller's
\* filter, live or already soft-deleted.
C8_BulkSoftDeleteStampsAllMatching ==
    [][\A f \in CallerFilters :
          StaticSoftDelete(f)
              => \A d \in Ids :
                    Matches(store[d], OrEmpty(f)) => store'[d].deletedAt = Num(generateUnixTime)]_vars

\* C9 (bulk restore), as claimed: after Model.restore(filter) every document
\* matching the caller's filter has deletedAt null, those soft-deleted before the
\* call included.
C9_BulkRestoreNullsAllMatching ==
    [][\A f \in CallerFilters :
          StaticRestore(f)
              => \A d \in Ids : Matches(store[d], OrEmpty(f)) => store'[d].deletedAt = Null]_vars

\* C10 (bulk idempotence), as claimed: Model.softDelete({}) called right after
\* Model.softDelete({}) leaves every document's deletedAt equal to the time of the
\* second call, and no numeric deletedAt decreases.
C10_BulkSoftDeleteTwice ==
    [][(/\ last.op = "Model.softDelete"
        /\ OrEmpty(last.filter) = EmptyObject
        /\ StaticSoftDelete(Given(EmptyObject)))
          => /\ last.at <= generateUnixTime
             /\ \A d \in Ids : store'[d].deletedAt = Num(generateUnixTime)
             /\ \A d \in Ids : Deleted(d) => store'[d].deletedAt.n >= store[d].deletedAt.n]_vars

\* ======================================================================
\* Timestamp plugin (src/timespan-unix-converter.ts), applied together with
\* the soft-delete plugin to every schema, as the connection factory does.
\* Documents here also carry createdAt and updatedAt; the collection starts
\* empty and a document enters it by its first save.
\* ======================================================================
NumStampDocs == 1

StampIds == 1..NumStampDocs

\* Date.now() / 1000, floored, after k clock ticks.
UnixAt(k) == (EpochMs + k * TickMs) \div MsPerSec

\* new Model({ status }): a document not saved yet (isNew).
NewDocument(d) ==
    [status |-> StatusOf(d), deletedAt |-> Undefined, createdAt |-> Undefined,
     updatedAt |-> Undefined]

\* The save hook setting createdAt on every save, new document or not.
preSave_always(doc, isNew, tCreated, tUpdated) ==
    [doc EXCEPT !.createdAt = Num(tCreated), !.updatedAt = Num(tUpdated)]

\* schema.pre('save'): createdAt when the document is new, updatedAt always; each
\* from its own reading of the clock.
preSave(doc, isNew, tCreated, tUpdated) ==
    [doc EXCEPT !.createdAt = IF isNew THEN Num(tCreated) ELSE @,
                !.updatedAt = Num(tUpdated)]

\* schema.pre('findOneAndUpdate'): this.set({ updatedAt: generateUnixTime() }).
preFindOneAndUpdate(update) == update @@ [updatedAt |-> Num(generateUnixTime)]

\* The caller's update document: { $set: { status: s } }.
SetStatus(s) == [status |-> s]

\* Applying a $set update document to the documents ids of st.
ApplySet(st, ids, update) ==
    [d \in DOMAIN st |->
        IF d \in ids
        THEN [k \in DOMAIN st[d] |-> IF k \in DOMAIN update THEN update[k] ELSE st[d][k]]
        ELSE st[d]]

StampStatuses == {Str("archived")}

StampFilters == {Given(EmptyObject), Given(<< FieldEq("status", Str("active")) >>)}

\* The ids a hooked update operation of the kind acts on (no options given).
UpdateTargets(kind, f) ==
    Outcomes(kind, Select(store, OrEmpty(preQuery(kind, f, NoOptions))))

InitStamp ==
    /\ store = [d \in {} |-> NewDocument(d)]
    /\ ticks = 0
    /\ q = NoQuery
    /\ pc = "idle"
    /\ last = NoCall
    /\ restored = {}

\* new Model(...).save(): the hook stamps the new document, which is inserted.
\* The clock is read twice and may advance in between.
Create(d) ==
    /\ d \notin DOMAIN store
    /\ \E k \in {ticks, ticks + 1} :
          /\ k <= MaxTicks
          /\ ticks' = k
          /\ store' = store @@ (d :> preSave(NewDocument(d), TRUE, UnixAt(ticks), UnixAt(k)))
    /\ UNCHANGED <<q, pc, last, restored>>

\* doc.status = s; doc.save() on a document of the collection.
Save(d, s) ==
    /\ d \in DOMAIN store
    /\ store' = [store EXCEPT ![d] =
                    preSave([store[d] EXCEPT !.status = s], FALSE, generateUnixTime, generateUnixTime)]
    /\ UNCHANGED <<ticks, q, pc, last, restored>>

\* Model.findOneAndUpdate(f, { $set: { status: s } }): hooked by both plugins.
FindOneAndUpdate(f, s, r) ==
    /\ r \in UpdateTargets("findOneAndUpdate", f)
    /\ store' = ApplySet(store, r, preFindOneAndUpdate(SetStatus(s)))
    /\ UNCHANGED <<ticks, q, pc, last, restored>>

\* Model.updateOne(f, { $set: { status: s } }): the timestamp plugin has no hook.
UpdateOne(f, s, r) ==
    /\ r \in UpdateTargets("updateOne", f)
    /\ store' = ApplySet(store, r, SetStatus(s))
    /\ UNCHANGED <<ticks, q, pc, last, restored>>

\* Model.updateMany(f, { $set: { status: s } }): the timestamp plugin has no hook.
UpdateMany(f, s) ==
    /\ \E r \in UpdateTargets("updateMany", f) : store' = ApplySet(store, r, SetStatus(s))
    /\ UNCHANGED <<ticks, q, pc, last, restored>>

NextStamp ==
    \/ Tick
    \/ \E d \in StampIds : Create(d)
    \/ \E d \in StampIds : \E s \in StampStatuses \cup {StatusOf(d)} : Save(d, s)
    \/ \E f \in StampFilters, s \in StampStatuses, r \in SUBSET StampIds : FindOneAndUpdate(f, s, r)
    \/ \E f \in StampFilters, s \in StampStatuses, r \in SUBSET StampIds : UpdateOne(f, s, r)
    \/ \E f \in StampFilters, s \in StampStatuses : UpdateMany(f, s)
    \/ \E f \in StampFilters : StaticSoftDelete(f)
    \/ \E f \in StampFilters : StaticRestore(f)

SpecStamp == InitStamp /\ [][NextStamp]_vars

\* ---------------------------------------------------------------- claims
StampedNow(d) == store'[d].updatedAt = Num(generateUnixTime')

\* C11 (update stamping), as claimed: every create-or-update through the model
\* (save of a new or existing document, findOneAndUpdate, updateOne, updateMany,
\* the bulk softDelete / restore) sets the written document's updatedAt to the
\* Unix time of the operation.
C11_UpdateStamping ==
    [][/\ \A d \in StampIds : Create(d) => StampedNow(d)
       /\ \A d \in StampIds, s \in StampStatuses : Save(d, s) => StampedNow(d)
       /\ \A f \in StampFilters, s \in StampStatuses, r \in SUBSET StampIds :
             (FindOneAndUpdate(f, s, r) \/ UpdateOne(f, s, r)) => \A d \in r : StampedNow(d)
       /\ \A f \in StampFilters, s \in StampStatuses :
             UpdateMany(f, s) => \A d \in UNION UpdateTargets("updateMany", f) : StampedNow(d)
       /\ \A f \in StampFilters :
             (StaticSoftDelete(f) \/ StaticRestore(f)) => \A d \in BulkTargets(f) : StampedNow(d)]_vars

\* C12 (creation stamping): the save hook sets createdAt when the document is new,
\* to the time of that save; no later operation on the document changes it; and
\* createdAt <= updatedAt holds for every document of the collection.
C12_CreationStamping ==
    /\ [](\A d \in DOMAIN store :
            /\ store[d].createdAt.t = "number"
            /\ store[d].updatedAt.t = "number"
            /\ store[d].createdAt.n <= store[d].updatedAt.n)
    /\ [][\A d \in StampIds :
            /\ Create(d) => store'[d].createdAt = Num(generateUnixTime)
            /\ d \in DOMAIN store => (d \in DOMAIN store' /\ store'[d].createdAt = store[d].createdAt)]_vars

\* C12 witness: a document created in one second and saved again in a later one:
\* createdAt kept, updatedAt moved on, status as the later save wrote it.
C12_Witness ==
    \E d \in DOMAIN store :
        /\ store[d].status \in StampStatuses
        /\ store[d].createdAt = Num(UnixAt(0))
        /\ store[d].updatedAt = Num(generateUnixTime)
        /\ store[d].createdAt.n < store[d].updatedAt.n

\* ======================================================================
\* Corrupt deletion markers.  The schema casts deletedAt to Number, so a
\* non-numeric marker only comes from a writer that bypasses the model;
\* the collection may hold such documents when the plugin is attached.
\* ======================================================================
CorruptMarker == Str("yesterday")

ReadKinds == {"find", "findOne", "countDocuments"}

InitCorrupt ==
    /\ store \in [Ids -> {[status |-> st, deletedAt |-> m] :
                            st \in {Str("active"), Str("inactive")},
                            m \in {Undefined, CorruptMarker}}]
    /\ \A d \in Ids : store[d].status = StatusOf(d)
    /\ ticks = 0
    /\ q = NoQuery
    /\ pc = "idle"
    /\ last = NoCall
    /\ restored = {}

NextCorrupt ==
    \/ \E kind \in ReadKinds, f \in CallerFilters : NewQuery(kind, f)
    \/ withDeleted
    \/ onlyDeleted
    \/ Exec
    \/ Discard
    \/ \E d \in Ids : softDelete(d)
    \/ \E d \in Ids : restore(d)

SpecCorrupt == InitCorrupt /\ [][NextCorrupt]_vars

\* ---------------------------------------------------------------- claims
Corrupt(d) == store[d].deletedAt.t \notin {"undefined", "null", "number"}

WithAlone == [withDeleted |-> TRUE, onlyDeleted |-> FALSE]

\* What find({}) returns under the given options.
View(o) == Select(store, OrEmpty(preQuery("find", Given(EmptyObject), o)))

\* C13 (corrupt marker): a document whose deletedAt is present, non-null and not
\* numeric is matched by no default-mode read and no onlyDeleted() read, and by a
\* withDeleted() read whenever the caller filter matches it; and the default view
\* and the only-deleted view together equal the include-all view exactly when no
\* document carries such a marker.
C13_CorruptMarker ==
    /\ (pc = "done" /\ q.kind \in ReadKinds)
          => \A d \in Ids :
                Corrupt(d)
                    => (d \in q.matched
                          <=> /\ q.options = WithAlone
                              /\ Matches(store[d], OrEmpty(q.filter)))
    /\ (View(NoOptions) \cup View(OnlyAlone) = View(WithAlone))
          <=> ~(\E d \in Ids : Corrupt(d))

\* C13 witness: a default find({}) that returns a live document and leaves out a
\* document with a corrupt marker, which no only-deleted read would return either.
C13_Witness ==
    /\ pc = "done" /\ q.kind = "find" /\ q.calls = << >> /\ q.filter = Given(EmptyObject)
    /\ q.result # {}
    /\ \E d \in Ids : Corrupt(d) /\ d \notin q.result /\ d \notin View(OnlyAlone) /\ d \in View(WithAlone)

====
